---- MODULE Spec2Model ----
(***************************************************************************)
(* A model of the XMPP client of mattn/go-xmpp (src/xmpp.go): NewClient,   *)
(* Client.init (the stream negotiation), Client.Recv, Client.Send,         *)
(* Client.Close, and the readers nextStart and next over an xml.Decoder.   *)
(*                                                                         *)
(* The inbound byte stream is a sequence of XML tokens.  The server is     *)
(* free: it sends any chunk of its vocabulary whenever the client is       *)
(* blocked in a read, or closes its side.  A client step that reads is     *)
(* enabled once the buffered tokens let the read finish (with a value or   *)
(* with an error); until then the read blocks.                             *)
(***************************************************************************)
EXTENDS Integers, Sequences, FiniteSets, TLC

\* ------------------------------------------------------------- bounds
\* Chunks the server may send in one run of NewClient and what follows.
MaxSend == 5
\* Chunks the server may send to a client that starts out connected.
MaxRecvSend == 3
\* Calls to Send the caller makes once the client is ready.
MaxSendCalls == 1
\* Whitespace chunks a server that answers every step may send besides.
MaxSpace == 2

\* --------------------------------------------------------- namespaces
nsStream == "http://etherx.jabber.org/streams"
nsTLS == "urn:ietf:params:xml:ns:xmpp-tls"
nsSASL == "urn:ietf:params:xml:ns:xmpp-sasl"
nsBind == "urn:ietf:params:xml:ns:xmpp-bind"
nsClient == "jabber:client"

\* ------------------------------------------------------------- tokens
\* What xml.Decoder.Token yields: a start element with its resolved name,
\* an end element, character data (its text in .local), or, for "bad",
\* input that is not well-formed (Token returns a syntax error).  A start
\* element carries, of its attributes, the one named type.
StartTokT(space, local, type) ==
  [k |-> "start", space |-> space, local |-> local, type |-> type]
StartTok(space, local) == StartTokT(space, local, "")
EndTok == [k |-> "end", space |-> "", local |-> "", type |-> ""]
TextTok(s) == [k |-> "text", space |-> "", local |-> s, type |-> ""]
BadTok == [k |-> "bad", space |-> "", local |-> "", type |-> ""]

Name(space, local) == [space |-> space, local |-> local]
NoName == Name("", "")

\* ------------------------------------------------------ xml.Decoder
\* The read side seen by the decoder: d.buf the tokens not yet read,
\* d.closed whether the peer has closed, d.depth the decoder's stack of
\* open elements, d.err the decoder's sticky error ("" for none).
ErrEOF == "EOF"
ErrSyntax == "XML syntax error"

\* One call of Decoder.Token: st is "tok", "err" or "block".
Token(d) ==
  IF d.err # "" THEN [st |-> "err", err |-> d.err, tok |-> BadTok, d |-> d]
  ELSE IF d.buf = << >> THEN
    IF ~d.closed THEN [st |-> "block", err |-> "", tok |-> BadTok, d |-> d]
    ELSE LET e == IF d.depth = 0 THEN ErrEOF ELSE ErrSyntax
         IN [st |-> "err", err |-> e, tok |-> BadTok, d |-> [d EXCEPT !.err = e]]
  ELSE LET t == Head(d.buf)
           rest == Tail(d.buf)
       IN CASE t.k = "start" ->
                 [st |-> "tok", err |-> "", tok |-> t,
                  d |-> [d EXCEPT !.buf = rest, !.depth = d.depth + 1]]
            [] t.k = "end" /\ d.depth > 0 ->
                 [st |-> "tok", err |-> "", tok |-> t,
                  d |-> [d EXCEPT !.buf = rest, !.depth = d.depth - 1]]
            [] t.k = "text" ->
                 [st |-> "tok", err |-> "", tok |-> t, d |-> [d EXCEPT !.buf = rest]]
            [] OTHER ->
                 [st |-> "err", err |-> ErrSyntax, tok |-> BadTok,
                  d |-> [d EXCEPT !.buf = rest, !.err = ErrSyntax]]

\* (A one-element set, as in  CHOOSE v \in {F(x) : x \in {e}} : TRUE,
\* names the value of e once: v is F(e).)

\* ------------------------------------------------- encoding/xml decode
\* A field's element name: space "" matches every namespace (a field
\* without a tag), otherwise the namespace must be equal.
NameMatches(pat, n) == pat.local = n.local /\ (pat.space = "" \/ pat.space = n.space)

PathMatches(pat, path) ==
  /\ Len(pat) = Len(path)
  /\ \A i \in 1..Len(pat) : NameMatches(pat[i], path[i])

\* A string field at the path pat: the character data of the last
\* child matching it ("" when there is none).
RECURSIVE StrField(_, _, _, _)
StrField(obs, i, pat, acc) ==
  IF i > Len(obs) THEN acc
  ELSE LET o == obs[i] IN
       IF ~PathMatches(pat, o.path) THEN StrField(obs, i + 1, pat, acc)
       ELSE IF o.k = "start" THEN StrField(obs, i + 1, pat, "")
       ELSE StrField(obs, i + 1, pat, acc \o o.txt)

\* The bool fields, by struct type, each with the path of its element:
\* Session of streamFeatures and Required of tlsStartTLS, neither with a
\* tag, the latter also as streamFeatures.StartTLS.Required.
BoolPaths(typ) ==
  CASE typ = "streamFeatures" ->
         { << Name("", "Session") >>,
           << Name(":ietf:params:xml:ns:xmpp-tls", "starttls"), Name("", "Required") >> }
    [] typ = "tlsStartTLS" -> { << Name("", "Required") >> }
    [] OTHER -> {}

\* strings.TrimSpace, of the texts the model has.
TrimSpace(s) == IF s \in {" ", "\n", "\t"} THEN "" ELSE s

\* strconv.ParseBool accepts these and nothing else.
ParseBoolOK(s) ==
  s \in {"1", "t", "T", "TRUE", "true", "True", "0", "f", "F", "FALSE", "false", "False"}

\* copyValue into a bool field of the character data src: "" for no
\* error.  Empty data sets false; other data is trimmed and parsed.
CopyBool(src) ==
  IF src = "" \/ ParseBoolOK(TrimSpace(src)) THEN ""
  ELSE "strconv.ParseBool: parsing \"" \o TrimSpace(src) \o "\": invalid syntax"

\* The error, if any, of storing the child that ends at path, a child
\* of a struct of type typ whose content so far is obs.
ChildError(typ, path, obs) ==
  IF \E pat \in BoolPaths(typ) : PathMatches(pat, path)
  THEN CopyBool(StrField(obs, 1, path, ""))
  ELSE ""

\* The content of the element whose start has been read, up to its end
\* element: what Decoder.unmarshal and Decoder.Skip consume.  obs lists,
\* in order, every descendant start (txt = "") and every text, each with
\* the path of element names from the element down to it.  typ is the
\* struct type decoded into: a child whose value cannot be stored ends
\* the read with that error, right after the child's end element.
RECURSIVE Content(_, _, _, _)
\* What follows the read r of one token inside the element.
ContentStep(r, typ, path, obs) ==
  IF r.st # "tok" THEN [st |-> r.st, err |-> r.err, d |-> r.d, obs |-> obs]
  ELSE CASE r.tok.k = "start" ->
              LET p == Append(path, Name(r.tok.space, r.tok.local))
              IN Content(r.d, typ, p, Append(obs, [path |-> p, k |-> "start", txt |-> ""]))
         [] r.tok.k = "end" ->
              IF path = << >> THEN [st |-> "ok", err |-> "", d |-> r.d, obs |-> obs]
              ELSE IF ChildError(typ, path, obs) # ""
              THEN [st |-> "err", err |-> ChildError(typ, path, obs), d |-> r.d, obs |-> obs]
              ELSE Content(r.d, typ, SubSeq(path, 1, Len(path) - 1), obs)
         [] OTHER ->
              Content(r.d, typ, path,
                      Append(obs, [path |-> path, k |-> "text", txt |-> r.tok.local]))

Content(d, typ, path, obs) ==
  CHOOSE c \in { ContentStep(r, typ, p, o) :
                   r \in { Token(d) }, p \in { path }, o \in { obs } } : TRUE

\* An xml.Name field at the path pat: unmarshal sets it to the name of
\* the last child matching it (the zero Name when there is none).
RECURSIVE NameField(_, _, _, _)
NameField(obs, i, pat, acc) ==
  IF i > Len(obs) THEN acc
  ELSE LET o == obs[i] IN
       IF o.k = "start" /\ PathMatches(pat, o.path)
       THEN NameField(obs, i + 1, pat, o.path[Len(o.path)])
       ELSE NameField(obs, i + 1, pat, acc)

\* A []string field at the path pat: one string per matching child, in
\* document order.
RECURSIVE ListField(_, _, _, _)
ListField(obs, i, pat, acc) ==
  IF i > Len(obs) THEN acc
  ELSE LET o == obs[i] IN
       IF ~PathMatches(pat, o.path) THEN ListField(obs, i + 1, pat, acc)
       ELSE IF o.k = "start" THEN ListField(obs, i + 1, pat, Append(acc, ""))
       ELSE ListField(obs, i + 1, pat,
                      [acc EXCEPT ![Len(acc)] = acc[Len(acc)] \o o.txt])

\* The XMLName tag of each struct type the program decodes into.
XMLNameOf(typ) ==
  CASE typ = "streamFeatures" -> Name(nsStream, "features")
    [] typ = "streamError" -> Name(nsStream, "error")
    [] typ = "tlsStartTLS" -> Name(":ietf:params:xml:ns:xmpp-tls", "starttls")
    [] typ = "tlsProceed" -> Name(nsTLS, "proceed")
    [] typ = "tlsFailure" -> Name(nsTLS, "failure")
    [] typ = "saslMechanisms" -> Name(nsSASL, "mechanisms")
    [] typ = "saslAbort" -> Name(nsSASL, "abort")
    [] typ = "saslSuccess" -> Name(nsSASL, "success")
    [] typ = "saslFailure" -> Name(nsSASL, "failure")
    [] typ = "bindBind" -> Name(nsBind, "bind")
    [] typ = "Message" -> Name(nsClient, "message")
    [] typ = "Presence" -> Name(nsClient, "presence")
    [] typ = "clientIQ" -> Name(nsClient, "iq")
    [] typ = "clientError" -> Name(nsClient, "error")
    [] OTHER -> NoName

\* A decoded value: its Go type and the fields the program reads.
\* typ "" is the nil interface value.
NilVal ==
  [typ |-> "", mechanism |-> << >>, any |-> NoName, jid |-> "", body |-> "",
   type |-> "", other |-> << >>]

\* The paths of the fields, by struct type.
MechanismPath(typ) ==
  IF typ = "saslMechanisms" THEN << Name(nsSASL, "mechanism") >>
  ELSE << Name(nsSASL, "mechanisms"), Name(nsSASL, "mechanism") >>
AnyPath(typ) ==
  IF typ = "clientIQ" THEN << Name(nsClient, "error"), Name("", "Any") >>
  ELSE << Name("", "Any") >>
JidPath(typ) ==
  IF typ = "bindBind" THEN << Name("", "Jid") >>
  ELSE << Name(nsBind, "bind"), Name("", "Jid") >>

\* The children of the element that no field of the struct matches:
\* no struct of the program has a field that takes them (a field tagged
\* ",any" or ",innerxml"), so unmarshal skips them and nothing of them
\* is kept.
OtherElem(typ, obs) == << >>

\* The struct of type typ decoded from the element with the start se and
\* the content obs.  Message and Presence take the attribute type.
Decoded(typ, se, obs) ==
  [typ |-> typ,
   type |-> IF typ \in {"Message", "Presence"} THEN se.type ELSE "",
   other |-> OtherElem(typ, obs),
   mechanism |-> IF typ \in {"streamFeatures", "saslMechanisms"}
                 THEN ListField(obs, 1, MechanismPath(typ), << >>) ELSE << >>,
   any |-> IF typ \in {"saslFailure", "streamError", "clientError", "clientIQ"}
           THEN NameField(obs, 1, AnyPath(typ), NoName) ELSE NoName,
   jid |-> IF typ \in {"clientIQ", "bindBind", "streamFeatures"}
           THEN StrField(obs, 1, JidPath(typ), "") ELSE "",
   body |-> IF typ = "Message"
            THEN StrField(obs, 1, << Name(nsClient, "body") >>, "") ELSE ""]

\* Decoder.unmarshal's search for the start element when none is given:
\* tokens that are not start elements are read and dropped.
RECURSIVE FindStart(_)
FindStartStep(r) == IF r.st # "tok" \/ r.tok.k = "start" THEN r ELSE FindStart(r.d)
FindStart(d) == CHOOSE f \in { FindStartStep(r) : r \in { Token(d) } } : TRUE

\* Decoder.unmarshal after the content c of the element has been read.
UnmarshalContent(c, typ, se) ==
  IF c.st # "ok" THEN [st |-> c.st, err |-> c.err, d |-> c.d, val |-> NilVal]
  ELSE [st |-> "ok", err |-> "", d |-> c.d, val |-> Decoded(typ, se, c.obs)]

\* Decoder.unmarshal into a struct of type typ, f being the read of the
\* start element: the XMLName is checked, local name first, before any
\* of the content is read.
Unmarshal(f, typ) ==
  IF f.st # "tok" THEN [st |-> f.st, err |-> f.err, d |-> f.d, val |-> NilVal]
  ELSE IF XMLNameOf(typ).local # f.tok.local
  THEN [st |-> "err", d |-> f.d, val |-> NilVal,
        err |-> "expected element type <" \o XMLNameOf(typ).local \o "> but have <"
                \o f.tok.local \o ">"]
  ELSE IF XMLNameOf(typ).space # f.tok.space
  THEN [st |-> "err", d |-> f.d, val |-> NilVal,
        err |-> "expected element <" \o XMLNameOf(typ).local \o "> in name space "
                \o XMLNameOf(typ).space \o " but have "
                \o (IF f.tok.space = "" THEN "no name space" ELSE f.tok.space)]
  ELSE CHOOSE u \in { UnmarshalContent(c, typ, f.tok) : c \in { Content(f.d, typ, << >>, << >>) } } : TRUE

\* Decoder.DecodeElement(v, start) for v of type typ; hasStart says
\* whether start was given (then se is it) or nil.  typ "string" is the
\* non-pointer value that next passes for challenge and response.
DecodeElement(d, typ, hasStart, se) ==
  IF typ = "string"
  THEN [st |-> "err", err |-> "non-pointer passed to Unmarshal", d |-> d, val |-> NilVal]
  ELSE CHOOSE u \in
         { Unmarshal(f, typ) :
             f \in { IF hasStart THEN [st |-> "tok", err |-> "", tok |-> se, d |-> d]
                     ELSE FindStart(d) } } : TRUE

\* ------------------------------------------------- nextStart and next
\* nextStart: the next StartElement.  A Token error does not return:
\* log.Fatal ends the process (st "fatal").
RECURSIVE nextStart(_)
\* The switch on the token read: r is what Token returned.
nextStartStep(r) ==
  IF r.st = "err" THEN [st |-> "fatal", err |-> r.err, se |-> BadTok, d |-> r.d]
  ELSE IF r.st = "block" THEN [st |-> "block", err |-> "", se |-> BadTok, d |-> r.d]
  ELSE IF r.tok.k = "start" THEN [st |-> "ok", err |-> "", se |-> r.tok, d |-> r.d]
  ELSE nextStart(r.d)

nextStart(d) == CHOOSE s \in { nextStartStep(r) : r \in { Token(d) } } : TRUE

\* The type next allocates for a start element, keyed as the code keys
\* it, by Space + " " + Local; "" when the key is not in the switch.
DispatchKey(se) == se.space \o " " \o se.local
DispatchType(se) ==
  CASE DispatchKey(se) = nsStream \o " features" -> "streamFeatures"
    [] DispatchKey(se) = nsStream \o " error" -> "streamError"
    [] DispatchKey(se) = nsTLS \o " starttls" -> "tlsStartTLS"
    [] DispatchKey(se) = nsTLS \o " proceed" -> "tlsProceed"
    [] DispatchKey(se) = nsTLS \o " failure" -> "tlsFailure"
    [] DispatchKey(se) = nsSASL \o " mechanisms" -> "saslMechanisms"
    [] DispatchKey(se) = nsSASL \o " challenge" -> "string"
    [] DispatchKey(se) = nsSASL \o " response" -> "string"
    [] DispatchKey(se) = nsSASL \o " abort" -> "saslAbort"
    [] DispatchKey(se) = nsSASL \o " success" -> "saslSuccess"
    [] DispatchKey(se) = nsSASL \o " failure" -> "saslFailure"
    [] DispatchKey(se) = nsBind \o " bind" -> "bindBind"
    [] DispatchKey(se) = nsClient \o " message" -> "Message"
    [] DispatchKey(se) = nsClient \o " presence" -> "Presence"
    [] DispatchKey(se) = nsClient \o " iq" -> "clientIQ"
    [] DispatchKey(se) = nsClient \o " error" -> "clientError"
    [] OTHER -> ""

\* What next returns once DecodeElement has ended with u.
nextDecoded(se, u) ==
  IF u.st = "block"
  THEN [st |-> "block", err |-> "", name |-> NoName, val |-> NilVal, d |-> u.d, se |-> se]
  ELSE IF u.st = "err"
  THEN [st |-> "ok", err |-> u.err, name |-> NoName, val |-> NilVal, d |-> u.d, se |-> se]
  ELSE [st |-> "ok", err |-> "", name |-> Name(se.space, se.local),
        val |-> u.val, d |-> u.d, se |-> se]

\* A next whose switch lets an unknown name through as an empty value.
nextDispatch_skipsUnknown(s) ==
  IF s.st # "ok"
  THEN [st |-> s.st, err |-> s.err, name |-> NoName, val |-> NilVal, d |-> s.d, se |-> s.se]
  ELSE IF DispatchType(s.se) = ""
  THEN [st |-> "ok", name |-> Name(s.se.space, s.se.local), val |-> NilVal, d |-> s.d,
        se |-> s.se, err |-> ""]
  ELSE CHOOSE r \in
         { nextDecoded(s.se, u) :
             u \in { DecodeElement(s.d, DispatchType(s.se), TRUE, s.se) } } : TRUE

\* next after nextStart has ended with s: the switch and the decode.
nextDispatch(s) ==
  IF s.st # "ok"
  THEN [st |-> s.st, err |-> s.err, name |-> NoName, val |-> NilVal, d |-> s.d, se |-> s.se]
  ELSE IF DispatchType(s.se) = ""
  THEN [st |-> "ok", name |-> NoName, val |-> NilVal, d |-> s.d, se |-> s.se,
        err |-> "unexpected XMPP message " \o s.se.space \o " <" \o s.se.local \o "/>"]
  ELSE CHOOSE r \in
         { nextDecoded(s.se, u) :
             u \in { DecodeElement(s.d, DispatchType(s.se), TRUE, s.se) } } : TRUE

\* next: (name, value, error); err "" is the nil error.  st is "ok"
\* when next returns (with or without an error), "fatal" or "block".
next(d) == CHOOSE r \in { nextDispatch(s) : s \in { nextStart(d) } } : TRUE

\* ------------------------------------------------------------ strings
\* A Go string is a sequence of one-character strings; Str is its text.
RECURSIVE Str(_)
Str(cs) == IF cs = << >> THEN "" ELSE Head(cs) \o Str(Tail(cs))

xmlSpecial(c) ==
  CASE c = "<" -> "&lt;"
    [] c = ">" -> "&gt;"
    [] c = "\"" -> "&quot;"
    [] c = "'" -> "&apos;"
    [] c = "&" -> "&amp;"
    [] OTHER -> c

RECURSIVE xmlEscape(_)
xmlEscape(cs) == IF cs = << >> THEN "" ELSE xmlSpecial(Head(cs)) \o xmlEscape(Tail(cs))

\* strings.SplitN(s, "@", 2): the index of the first "@", 0 when none.
RECURSIVE IndexAt(_, _)
IndexAt(cs, i) ==
  IF i > Len(cs) THEN 0 ELSE IF cs[i] = "@" THEN i ELSE IndexAt(cs, i + 1)

SplitN2(cs) ==
  LET i == IndexAt(cs, 1) IN
  IF i = 0 THEN << cs >> ELSE << SubSeq(cs, 1, i - 1), SubSeq(cs, i + 1, Len(cs)) >>

\* The byte of each character the model's credentials use.
Ord(c) ==
  CASE c = "u" -> 117 [] c = "d" -> 100 [] c = "p" -> 112 [] c = "w" -> 119
    [] c = "@" -> 64 [] c = "&" -> 38 [] c = "<" -> 60 [] OTHER -> 63

Bytes(cs) == [i \in 1..Len(cs) |-> Ord(cs[i])]

B64Alphabet ==
  << "A","B","C","D","E","F","G","H","I","J","K","L","M","N","O","P",
     "Q","R","S","T","U","V","W","X","Y","Z","a","b","c","d","e","f",
     "g","h","i","j","k","l","m","n","o","p","q","r","s","t","u","v",
     "w","x","y","z","0","1","2","3","4","5","6","7","8","9","+","/" >>
B64(n) == B64Alphabet[n + 1]

\* base64.StdEncoding.Encode of a byte sequence.
RECURSIVE Base64(_)
Base64(bs) ==
  IF Len(bs) = 0 THEN ""
  ELSE IF Len(bs) = 1 THEN
    B64(bs[1] \div 4) \o B64((bs[1] % 4) * 16) \o "=="
  ELSE IF Len(bs) = 2 THEN
    B64(bs[1] \div 4) \o B64((bs[1] % 4) * 16 + bs[2] \div 16)
      \o B64((bs[2] % 16) * 4) \o "="
  ELSE
    B64(bs[1] \div 4) \o B64((bs[1] % 4) * 16 + bs[2] \div 16)
      \o B64((bs[2] % 16) * 4 + bs[3] \div 64) \o B64(bs[3] % 64)
      \o Base64(SubSeq(bs, 4, Len(bs)))

\* fmt's %v of a []string.
RECURSIVE JoinSp(_)
JoinSp(ss) ==
  IF ss = << >> THEN ""
  ELSE IF Len(ss) = 1 THEN ss[1] ELSE ss[1] \o " " \o JoinSp(Tail(ss))
FmtList(ss) == "[" \o JoinSp(ss) \o "]"

\* ------------------------------------------------- what init writes
StreamOpen(domain) ==
  "<stream:stream to='" \o xmlEscape(domain) \o "' xmlns='" \o nsClient
    \o "'\n xmlns:stream='" \o nsStream \o "' version='1.0'>\n"
HeaderText(domain) == "<?xml version='1.0'?>\n" \o StreamOpen(domain)
RestartText(domain) == StreamOpen(domain)
AuthMechanism == "PLAIN"
AuthText(usr, passwd) ==
  "<auth xmlns='" \o nsSASL \o "' mechanism='" \o AuthMechanism \o "'>"
    \o Base64(<< 0 >> \o Bytes(usr) \o << 0 >> \o Bytes(passwd)) \o "</auth>\n"
BindText == "<iq type='set' id='x'><bind xmlns='" \o nsBind \o "'/></iq>\n"
PresenceText ==
  "<presence xml:lang='en'><show>xa</show><status>I for one welcome our new codebot overlords.</status></presence>"

\* A havePlain that takes any offered mechanism.
havePlain_anyMechanism(mechs) == Len(mechs) > 0

\* havePlain: the loop over f.Mechanisms.Mechanism.
havePlain(mechs) == \E i \in 1..Len(mechs) : mechs[i] = "PLAIN"

\* -------------------------------------------------------- the server
Elem(space, local, content) == << StartTok(space, local) >> \o content \o << EndTok >>

RECURSIVE MechElems(_)
MechElems(ms) ==
  IF ms = << >> THEN << >>
  ELSE Elem(nsSASL, "mechanism", << TextTok(Head(ms)) >>) \o MechElems(Tail(ms))

FeaturesElem(ms) ==
  Elem(nsStream, "features",
       Elem(nsSASL, "mechanisms", MechElems(ms))
         \o Elem("http://jabber.org/features/iq-register", "register", << >>))

\* What the server can send, by label.
ChunkLabels ==
  { "root", "root-ns", "features-EPX", "features-PX", "features-X", "features-E",
    "features-Session", "success", "success+root", "failure", "iq-bind", "iq-Jid", "iq-empty",
    "message-1", "message-2", "message-error", "presence", "query", "challenge",
    "cut", "space", "bad" }

nsStanzas == "urn:ietf:params:xml:ns:xmpp-stanzas"

Chunk(l) ==
  CASE l = "root" -> << StartTok(nsStream, "stream") >>
    [] l = "root-ns" -> << StartTok(nsClient, "stream") >>
    [] l = "features-Session" ->
         Elem(nsStream, "features",
              Elem(nsStream, "Session", << TextTok("maybe") >>)
                \o Elem(nsSASL, "mechanisms", MechElems(<< "PLAIN" >>)))
    [] l = "success+root" ->
         Elem(nsSASL, "success", << >>) \o << StartTok(nsStream, "stream") >>
    [] l = "message-error" ->
         << StartTokT(nsClient, "message", "error") >>
           \o Elem("google:mobile:data", "gcm", << TextTok("{\"random\": \"<text>\"}") >>)
           \o Elem(nsClient, "error",
                   Elem(nsStanzas, "bad-request", << >>)
                     \o Elem(nsStanzas, "text", << TextTok("InvalidJson") >>))
           \o << EndTok >>
    [] l = "features-EPX" -> FeaturesElem(<< "EXTERNAL", "PLAIN", "X-OAUTH2" >>)
    [] l = "features-PX" -> FeaturesElem(<< "PLAIN", "X-OAUTH2" >>)
    [] l = "features-X" -> FeaturesElem(<< "X-OAUTH2" >>)
    [] l = "features-E" -> FeaturesElem(<< "EXTERNAL" >>)
    [] l = "success" -> Elem(nsSASL, "success", << >>)
    [] l = "failure" ->
         Elem(nsSASL, "failure", Elem(nsSASL, "not-authorized", << >>))
    [] l = "iq-bind" ->
         Elem(nsClient, "iq",
              Elem(nsBind, "bind", Elem(nsBind, "jid", << TextTok("u@d/r") >>)))
    [] l = "iq-Jid" ->
         Elem(nsClient, "iq",
              Elem(nsBind, "bind", Elem(nsBind, "Jid", << TextTok("u@d/R") >>)))
    [] l = "iq-empty" -> Elem(nsClient, "iq", << >>)
    [] l = "message-1" ->
         Elem(nsClient, "message", Elem(nsClient, "body", << TextTok("m1") >>))
    [] l = "message-2" ->
         Elem(nsClient, "message", Elem(nsClient, "body", << TextTok("m2") >>))
    [] l = "presence" -> Elem(nsClient, "presence", << >>)
    [] l = "query" -> Elem("jabber:iq:roster", "query", << >>)
    [] l = "challenge" -> Elem(nsSASL, "challenge", << TextTok("cg==") >>)
    [] l = "cut" -> << StartTok(nsClient, "message"), BadTok >>
    [] l = "space" -> << TextTok(" ") >>
    [] OTHER -> << BadTok >>

\* ---------------------------------------------------------- the state
VARIABLES
  pc,           \* where the caller is: in NewClient, in a step of init, in Recv, ...
  user,         \* NewClient's user argument
  passwd,       \* NewClient's passwd argument
  AuthExternal, \* the caller's prefer-EXTERNAL policy (Options.AuthExternal in the tests)
  encrypted,    \* the TLS handshake and the hostname check have succeeded
  inbuf,        \* tokens the server has sent and the decoder has not read
  inClosed,     \* the server has closed its side
  sentLog,      \* the labels of the chunks the server has sent, in order
  dec,          \* c.dec: the decoder's depth and sticky error
  wire,         \* everything written to c.tls, in order
  jid,          \* c.jid
  err,          \* the error NewClient returned ("" for none)
  client,       \* what the caller holds: "nil" or "held"
  tlsClosed,    \* c.tls.Close() has been called
  recvSeen,     \* what each call of next inside Recv produced, in order
  recvRet,      \* what each call of Recv returned, in order
  stdout,       \* the values Recv printed
  sendCalls,    \* calls of Send so far
  enc,          \* c.enc: what the encoder has marshalled and not yet written
  sendRet       \* what each call of Send returned, in order ("" for nil)

vars == << pc, user, passwd, AuthExternal, encrypted, inbuf, inClosed, sentLog, dec,
           wire, jid, err, client, tlsClosed, recvSeen, recvRet, stdout, sendCalls,
           enc, sendRet >>

callerVars == << user, passwd, AuthExternal >>
recvVars == << recvSeen, recvRet, stdout >>
sendVars == << sendCalls, enc, sendRet >>

Users == { << "u", "@", "d", "&", "d" >>, << "u", "d" >> }
Passwds == { << "p", "w" >> }

\* The decoder over the transport, as the readers take it.
D == [buf |-> inbuf, closed |-> inClosed, depth |-> dec.depth, err |-> dec.err]

\* The read the caller is in, if any: its status tells whether it blocks.
ReadStatus ==
  CASE pc \in {"root1", "root2"} -> nextStart(D).st
    [] pc \in {"features1", "features2"} -> DecodeElement(D, "streamFeatures", FALSE, BadTok).st
    [] pc = "authResult" -> next(D).st
    [] pc = "bindResult" -> DecodeElement(D, "clientIQ", FALSE, BadTok).st
    [] pc = "Recv" -> next(D).st
    [] OTHER -> "none"

Init ==
  /\ pc = "NewClient"
  /\ user \in Users
  /\ passwd \in Passwds
  /\ AuthExternal \in BOOLEAN
  /\ encrypted = FALSE
  /\ inbuf = << >>
  /\ inClosed = FALSE
  /\ sentLog = << >>
  /\ dec = [depth |-> 0, err |-> ""]
  /\ wire = << >>
  /\ jid = ""
  /\ err = ""
  /\ client = "nil"
  /\ tlsClosed = FALSE
  /\ recvSeen = << >>
  /\ recvRet = << >>
  /\ stdout = << >>
  /\ sendCalls = 0
  /\ enc = ""
  /\ sendRet = << >>

\* ---------------------------------------------------------- the server
ServerSendFrom(labels, max) ==
  /\ ReadStatus = "block"
  /\ Len(sentLog) < max
  /\ \E l \in labels :
       /\ inbuf' = inbuf \o Chunk(l)
       /\ sentLog' = Append(sentLog, l)
  /\ UNCHANGED << pc, callerVars, encrypted, inClosed, dec, wire, jid, err, client,
                  tlsClosed, recvVars, sendVars >>

ServerSendUpTo(max) == ServerSendFrom(ChunkLabels, max)

ServerSend == ServerSendUpTo(MaxSend)

ServerClose ==
  /\ ReadStatus = "block"
  /\ ~inClosed
  /\ inClosed' = TRUE
  /\ UNCHANGED << pc, callerVars, encrypted, inbuf, sentLog, dec, wire, jid, err, client,
                  tlsClosed, recvVars, sendVars >>

\* ----------------------------------------------------------- NewClient
Write(kind, text) == wire' = Append(wire, [kind |-> kind, text |-> text])

Read(d) ==
  /\ inbuf' = d.buf
  /\ dec' = [depth |-> d.depth, err |-> d.err]

\* init returns e; NewClient closes the connection and returns (nil, e).
Fail(e) ==
  /\ pc' = "Failed"
  /\ err' = e
  /\ tlsClosed' = TRUE
  /\ client' = "nil"

\* log.Fatal: the process exits.
Fatal ==
  /\ pc' = "Exited"
  /\ UNCHANGED << err, tlsClosed, client >>

\* A NewClient that goes on to init whatever the handshake said.
ConnectOutcome_ignoresError(o) ==
  /\ pc' = "init"
  /\ encrypted' = (o = "ok")
  /\ err' = ""

\* Dial, the TLS handshake and the hostname check; any of them failing
\* returns (nil, err) before a Client exists.
ConnectOutcome(o) ==
  IF o = "ok"
  THEN /\ pc' = "init"
       /\ encrypted' = TRUE
       /\ err' = ""
  ELSE /\ pc' = "Failed"
       /\ encrypted' = FALSE
       /\ err' = o

NewClient ==
  /\ pc = "NewClient"
  /\ \E o \in {"ok", "dial", "handshake", "hostname"} : ConnectOutcome(o)
  /\ UNCHANGED << callerVars, inbuf, inClosed, sentLog, dec, wire, jid, client,
                  tlsClosed, recvVars, sendVars >>

\* ---------------------------------------------------------------- init
\* The decoder and the encoder are made, the user is split and the
\* stream header is written.
init_open ==
  /\ pc = "init"
  /\ \E a \in { SplitN2(user) } :
     IF Len(a) # 2
     THEN /\ Fail("xmpp: invalid username (want user@domain): " \o Str(user))
          /\ UNCHANGED wire
     ELSE /\ Write("header", HeaderText(a[2]))
          /\ pc' = "root1"
          /\ UNCHANGED << err, tlsClosed, client >>
  /\ dec' = [depth |-> 0, err |-> ""]
  /\ UNCHANGED << callerVars, encrypted, inbuf, inClosed, sentLog, jid, recvVars, sendVars >>

\* A check of the local name alone.
IsStreamRoot_localOnly(se) == se.local = "stream"

IsStreamRoot(se) == ~(se.space # nsStream \/ se.local # "stream")

\* Server should respond with a stream opening.
init_root1 ==
  /\ pc = "root1"
  /\ \E r \in { nextStart(D) } :
     /\ r.st # "block"
     /\ Read(r.d)
     /\ IF r.st = "fatal" THEN Fatal
        ELSE IF ~IsStreamRoot(r.se)
        THEN Fail("xmpp: expected <stream> but got <" \o r.se.local \o "> in " \o r.se.space)
        ELSE /\ pc' = "features1"
             /\ UNCHANGED << err, tlsClosed, client >>
  /\ UNCHANGED << callerVars, encrypted, inClosed, sentLog, wire, jid, recvVars, sendVars >>

\* <features>, the choice of the mechanism and the auth element.
init_features1 ==
  /\ pc = "features1"
  /\ \E r \in { DecodeElement(D, "streamFeatures", FALSE, BadTok) } :
     /\ r.st # "block"
     /\ Read(r.d)
     /\ IF r.st = "err"
        THEN /\ Fail("unmarshal <features>: " \o r.err)
             /\ UNCHANGED wire
        ELSE IF ~havePlain(r.val.mechanism)
        THEN /\ Fail("PLAIN authentication is not an option: " \o FmtList(r.val.mechanism))
             /\ UNCHANGED wire
        ELSE /\ Write("auth", AuthText(SplitN2(user)[1], passwd))
             /\ pc' = "authResult"
             /\ UNCHANGED << err, tlsClosed, client >>
  /\ UNCHANGED << callerVars, encrypted, inClosed, sentLog, jid, recvVars, sendVars >>

\* A switch whose failure case does not return.
AuthOutcome_failureFallsThrough(r) ==
  CASE r.val.typ \in {"saslSuccess", "saslFailure"} -> "success"
    [] OTHER -> "default"

\* The switch on the value next returned after the auth element.
AuthOutcome(r) ==
  CASE r.val.typ = "saslSuccess" -> "success"
    [] r.val.typ = "saslFailure" -> "failure"
    [] OTHER -> "default"

\* A restart that makes a new decoder over the connection: what the old
\* one had buffered and the elements it had open are gone.
RestartDecoder_rebuilt(d) == [d EXCEPT !.buf = << >>, !.depth = 0, !.err = ""]

\* The decoder across the restart: c.dec, made once at the top of init,
\* goes on as it is, with what it has buffered and the first root open.
RestartDecoder(d) == d

init_authResult ==
  /\ pc = "authResult"
  /\ \E r \in { next(D) } :
     /\ r.st # "block"
     /\ IF r.st = "fatal" THEN Fatal /\ UNCHANGED wire /\ Read(r.d)
        ELSE CASE AuthOutcome(r) = "success" ->
                    /\ Read(RestartDecoder(r.d))
                    /\ Write("restart", RestartText(SplitN2(user)[2]))
                    /\ pc' = "root2"
                    /\ UNCHANGED << err, tlsClosed, client >>
               [] AuthOutcome(r) = "failure" ->
                    /\ Read(r.d)
                    /\ Fail("auth failure: " \o r.val.any.local)
                    /\ UNCHANGED wire
               [] OTHER ->
                    /\ Read(r.d)
                    /\ Fail("expected <success> or <failure>, got <" \o r.name.local
                            \o "> in " \o r.name.space)
                    /\ UNCHANGED wire
  /\ UNCHANGED << callerVars, encrypted, inClosed, sentLog, jid, recvVars, sendVars >>

\* Here comes another <stream>.
init_root2 ==
  /\ pc = "root2"
  /\ \E r \in { nextStart(D) } :
     /\ r.st # "block"
     /\ Read(r.d)
     /\ IF r.st = "fatal" THEN Fatal
        ELSE IF ~IsStreamRoot(r.se)
        THEN Fail("expected <stream>, got <" \o r.se.local \o "> in " \o r.se.space)
        ELSE /\ pc' = "features2"
             /\ UNCHANGED << err, tlsClosed, client >>
  /\ UNCHANGED << callerVars, encrypted, inClosed, sentLog, wire, jid, recvVars, sendVars >>

\* A second features read as strict as the first.
init_features2_strict ==
  /\ pc = "features2"
  /\ \E r \in { DecodeElement(D, "streamFeatures", FALSE, BadTok) } :
     /\ r.st # "block"
     /\ Read(r.d)
     /\ IF r.st = "err"
        THEN /\ Fail("unmarshal <features>: " \o r.err)
             /\ UNCHANGED wire
        ELSE /\ Write("bind", BindText)
             /\ pc' = "bindResult"
             /\ UNCHANGED << err, client, tlsClosed >>
  /\ UNCHANGED << callerVars, encrypted, inClosed, sentLog, jid, recvVars, sendVars >>

\* The bind request written without the second features read.
init_features2_noRead ==
  /\ pc = "features2"
  /\ Write("bind", BindText)
  /\ pc' = "bindResult"
  /\ UNCHANGED << callerVars, encrypted, inbuf, inClosed, sentLog, dec, jid, err, client,
                  tlsClosed, recvVars, sendVars >>

\* The second <features>: its decode error is dropped; the bind request
\* is written either way.
init_features2 ==
  /\ pc = "features2"
  /\ \E r \in { DecodeElement(D, "streamFeatures", FALSE, BadTok) } :
     /\ r.st # "block"
     /\ Read(r.d)
  /\ Write("bind", BindText)
  /\ pc' = "bindResult"
  /\ UNCHANGED << callerVars, encrypted, inClosed, sentLog, jid, err, client, tlsClosed,
                  recvVars, sendVars >>

\* &iq.Bind == nil: the address of a field is never nil.
BindMissing(val) == FALSE

\* The <iq> answering the bind request, c.jid, the initial presence;
\* init returns nil and NewClient returns the client.
init_bindResult ==
  /\ pc = "bindResult"
  /\ \E r \in { DecodeElement(D, "clientIQ", FALSE, BadTok) } :
     /\ r.st # "block"
     /\ Read(r.d)
     /\ IF r.st = "err"
        THEN /\ Fail("unmarshal <iq>: " \o r.err)
             /\ UNCHANGED << wire, jid >>
        ELSE IF BindMissing(r.val)
        THEN /\ Fail("<iq> result missing <bind>")
             /\ UNCHANGED << wire, jid >>
        ELSE /\ jid' = r.val.jid
             /\ Write("presence", PresenceText)
             /\ pc' = "Ready"
             /\ client' = "held"
             /\ UNCHANGED << err, tlsClosed >>
  /\ UNCHANGED << callerVars, encrypted, inClosed, sentLog, recvVars, sendVars >>

\* ------------------------------------------------- Recv, Send, Close
\* A Recv that returns an <iq> as well.
IsEvent_withIQ(val) == val.typ \in {"Message", "Presence", "clientIQ"}

\* The values Recv returns: *Message and *Presence.
IsEvent(val) == val.typ = "Message" \/ val.typ = "Presence"

\* What the caller sees of a call of Recv: the event's Go type, its Type
\* and Body, what it keeps of its other children, and the error.
Result(val, e) ==
  [typ |-> val.typ, body |-> val.body, type |-> val.type, other |-> val.other, err |-> e]

\* The caller calls Recv.
RecvCall ==
  /\ pc = "Ready"
  /\ pc' = "Recv"
  /\ UNCHANGED << callerVars, encrypted, inbuf, inClosed, sentLog, dec, wire, jid, err,
                  client, tlsClosed, recvVars, sendVars >>

\* One turn of Recv's loop: next, then return the error, return the
\* event, or print the value and go round again.
Recv ==
  /\ pc = "Recv"
  /\ \E r \in { next(D) } :
     /\ r.st # "block"
     /\ Read(r.d)
     /\ IF r.st = "fatal"
        THEN /\ pc' = "Exited"
             /\ UNCHANGED recvVars
        ELSE /\ recvSeen' = Append(recvSeen, Result(r.val, r.err))
             /\ IF r.err # ""
                THEN /\ recvRet' = Append(recvRet, Result(NilVal, r.err))
                     /\ pc' = "Ready"
                     /\ UNCHANGED stdout
                ELSE IF IsEvent(r.val)
                THEN /\ recvRet' = Append(recvRet, Result(r.val, ""))
                     /\ pc' = "Ready"
                     /\ UNCHANGED stdout
                ELSE /\ stdout' = Append(stdout, r.val.typ)
                     /\ pc' = "Recv"
                     /\ UNCHANGED recvRet
  /\ UNCHANGED << callerVars, encrypted, inClosed, sentLog, wire, jid, err, client,
                  tlsClosed, sendVars >>

\* xml.EscapeText, byte by byte: what the encoder writes for character
\* data.
EscapeChar(c) ==
  CASE c = "\"" -> "&#34;"
    [] c = "'" -> "&#39;"
    [] c = "&" -> "&amp;"
    [] c = "<" -> "&lt;"
    [] c = ">" -> "&gt;"
    [] c = "\t" -> "&#x9;"
    [] c = "\n" -> "&#xA;"
    [] c = "\r" -> "&#xD;"
    [] OTHER -> c

RECURSIVE EscapeText(_)
EscapeText(cs) == IF cs = << >> THEN "" ELSE EscapeChar(Head(cs)) \o EscapeText(Tail(cs))

\* xml.Encoder.Encode of a Message with the body b and nothing else set:
\* the attributes are written empty, and each child element, its field
\* tagged with a name in a struct whose XMLName has a namespace, is
\* written with that namespace.
MessageText(b) ==
  "<message xmlns=\"" \o nsClient \o "\" from=\"\" id=\"\" to=\"\" type=\"\">"
    \o "<subject xmlns=\"" \o nsClient \o "\"></subject>"
    \o "<body xmlns=\"" \o nsClient \o "\">" \o EscapeText(b) \o "</body>"
    \o "<thread xmlns=\"" \o nsClient \o "\"></thread></message>"

\* The bodies the caller sends.
Bodies == { << "h", "i" >>, << "a", "<", "b" >> }

\* A write to a connection that has been closed.
ErrClosed == "use of closed network connection"
\* A write to a connection that the peer has closed or reset.
ErrReset == "connection reset by peer"

\* The encoder's writer keeps the first error of a write.
EncoderFailed == \E i \in 1..Len(sendRet) : sendRet[i] # ""

\* Send, first half: Encode marshals the value into the encoder's buffer.
Send_Encode ==
  /\ client = "held"
  /\ pc \in {"Ready", "Recv"}
  /\ Len(sendRet) = sendCalls
  /\ sendCalls < MaxSendCalls
  /\ sendCalls' = sendCalls + 1
  /\ \E b \in Bodies : enc' = IF EncoderFailed THEN enc ELSE enc \o MessageText(b)
  /\ UNCHANGED << pc, callerVars, encrypted, inbuf, inClosed, sentLog, dec, wire, jid, err,
                  client, tlsClosed, recvVars, sendRet >>

\* The outcomes of a write through the encoder to c.tls: after a failed
\* write, the kept error; else it fails once Close has closed the
\* connection; on a connection the peer has closed or reset it goes out
\* or fails, as the transport decides; otherwise it goes out.
\* The encoder's writer keeps the error of its first failed write and
\* from then on returns it without writing.
KeptError == SelectSeq(sendRet, LAMBDA e : e # "")[1]

WriteOutcomes ==
  IF EncoderFailed THEN { KeptError }
  ELSE IF tlsClosed THEN { ErrClosed }
  ELSE IF inClosed THEN { "", ErrReset }
  ELSE { "" }

\* Send, second half: the buffer is flushed to the connection and Send
\* returns.  When the write fails nothing goes out, the data stays in
\* the buffer and Send returns the error.  A process that log.Fatal has
\* ended takes no further step.
Send_Flush ==
  /\ Len(sendRet) < sendCalls
  /\ pc # "Exited"
  /\ \E e \in WriteOutcomes :
       IF e # ""
       THEN /\ sendRet' = Append(sendRet, e)
            /\ UNCHANGED << wire, enc >>
       ELSE /\ Write("stanza", enc)
            /\ enc' = ""
            /\ sendRet' = Append(sendRet, "")
  /\ UNCHANGED << pc, callerVars, encrypted, inbuf, inClosed, sentLog, dec, jid, err,
                  client, tlsClosed, recvVars, sendCalls >>

Send == Send_Encode \/ Send_Flush

Close ==
  /\ client = "held"
  /\ pc = "Ready"
  /\ pc' = "Closed"
  /\ tlsClosed' = TRUE
  /\ UNCHANGED << callerVars, encrypted, inbuf, inClosed, sentLog, dec, wire, jid, err,
                  client, recvVars, sendVars >>

Next ==
  \/ ServerSend
  \/ ServerClose
  \/ NewClient
  \/ init_open
  \/ init_root1
  \/ init_features1
  \/ init_authResult
  \/ init_root2
  \/ init_features2
  \/ init_bindResult
  \/ RecvCall
  \/ Recv
  \/ Send
  \/ Close

Spec == Init /\ [][Next]_vars

\* A Client put directly on a connection with a fresh decoder, as the
\* tests make one: no negotiation has run.
InitRecv ==
  /\ pc = "Ready"
  /\ user = << "u", "@", "d" >>
  /\ passwd = << "p", "w" >>
  /\ AuthExternal = FALSE
  /\ encrypted = TRUE
  /\ inbuf = << >>
  /\ inClosed = FALSE
  /\ sentLog = << >>
  /\ dec = [depth |-> 0, err |-> ""]
  /\ wire = << >>
  /\ jid = ""
  /\ err = ""
  /\ client = "held"
  /\ tlsClosed = FALSE
  /\ recvSeen = << >>
  /\ recvRet = << >>
  /\ stdout = << >>
  /\ sendCalls = 0
  /\ enc = ""
  /\ sendRet = << >>

\* What the server sends to it: the stanzas, and of the elements of the
\* negotiation one of each kind.
RecvLabels ==
  { "message-1", "message-2", "message-error", "presence", "iq-bind", "iq-empty",
    "features-PX", "success+root", "root", "query", "challenge", "cut", "space", "bad" }

ServerSendRecv == ServerSendFrom(RecvLabels, MaxRecvSend)

NextRecv ==
  \/ ServerSendRecv
  \/ ServerClose
  \/ RecvCall
  \/ Recv
  \/ Close

SpecRecv == InitRecv /\ [][NextRecv]_vars

\* The same Client with a second caller in Send beside the one in Recv.
\* The server sends a stanza of each kind, an element Recv prints, one it
\* refuses, and input that is not well formed.
ConcLabels ==
  { "message-1", "message-2", "presence", "iq-bind", "success+root", "root",
    "query", "bad" }

ServerSendConc == ServerSendFrom(ConcLabels, MaxRecvSend)

NextConc ==
  \/ ServerSendConc
  \/ ServerClose
  \/ RecvCall
  \/ Recv
  \/ Send
  \/ Close

SpecConc == InitRecv /\ [][NextConc]_vars

\* A negotiation with a server that answers every step: the connection
\* is made and encrypted, the user has the form local@domain, and at
\* each read the server sends what the protocol asks for, with some
\* whitespace in between.  The server goes on answering and init goes
\* on running, hence the fairness.
InitLive ==
  /\ pc = "init"
  /\ user = << "u", "@", "d", "&", "d" >>
  /\ passwd \in Passwds
  /\ AuthExternal \in BOOLEAN
  /\ encrypted = TRUE
  /\ inbuf = << >>
  /\ inClosed = FALSE
  /\ sentLog = << >>
  /\ dec = [depth |-> 0, err |-> ""]
  /\ wire = << >>
  /\ jid = ""
  /\ err = ""
  /\ client = "nil"
  /\ tlsClosed = FALSE
  /\ recvSeen = << >>
  /\ recvRet = << >>
  /\ stdout = << >>
  /\ sendCalls = 0
  /\ enc = ""
  /\ sendRet = << >>

Answers ==
  CASE pc \in {"root1", "root2"} -> {"root"}
    [] pc = "features1" -> {"features-EPX", "features-PX"}
    [] pc = "authResult" -> {"success"}
    [] pc = "features2" -> {"features-EPX", "features-PX", "features-X", "features-E"}
    [] pc = "bindResult" -> {"iq-bind"}
    [] OTHER -> {}

ServerAnswer ==
  /\ ReadStatus = "block"
  /\ \E l \in Answers :
       /\ inbuf' = inbuf \o Chunk(l)
       /\ sentLog' = Append(sentLog, l)
  /\ UNCHANGED << pc, callerVars, encrypted, inClosed, dec, wire, jid, err, client,
                  tlsClosed, recvVars, sendVars >>

ServerSpace ==
  /\ ReadStatus = "block"
  /\ Len(SelectSeq(sentLog, LAMBDA l : l = "space")) < MaxSpace
  /\ inbuf' = inbuf \o Chunk("space")
  /\ sentLog' = Append(sentLog, "space")
  /\ UNCHANGED << pc, callerVars, encrypted, inClosed, dec, wire, jid, err, client,
                  tlsClosed, recvVars, sendVars >>

initStep ==
  \/ init_open
  \/ init_root1
  \/ init_features1
  \/ init_authResult
  \/ init_root2
  \/ init_features2
  \/ init_bindResult

NextLive ==
  \/ ServerAnswer
  \/ ServerSpace
  \/ initStep

SpecLive ==
  InitLive /\ [][NextLive]_vars /\ WF_vars(ServerAnswer) /\ WF_vars(initStep)

\* =====================================================================
\* What the server sent, as the claims speak of it.
\* =====================================================================
\* The chunks that hold a start element, in the order sent.  init reads
\* them one per step: the first at root1, the second at features1, the
\* third at authResult.
ElemsOf(l) == IF l = "success+root" THEN << "success", "root" >> ELSE << l >>

RECURSIVE SentElems(_)
SentElems(ls) == IF ls = << >> THEN << >> ELSE ElemsOf(Head(ls)) \o SentElems(Tail(ls))

Elements == SelectSeq(SentElems(sentLog), LAMBDA l : l # "space")

IsFeatures(l) == l \in {"features-EPX", "features-PX", "features-X", "features-E"}

Advertised(l) ==
  CASE l = "features-EPX" -> {"EXTERNAL", "PLAIN", "X-OAUTH2"}
    [] l = "features-PX" -> {"PLAIN", "X-OAUTH2"}
    [] l = "features-X" -> {"X-OAUTH2"}
    [] l = "features-E" -> {"EXTERNAL"}
    [] OTHER -> {}

Wrote(kind) == \E i \in 1..Len(wire) : wire[i].kind = kind

\* The first features element, once init has read it ("" before).
FirstFeatures ==
  IF /\ Len(Elements) >= 2
     /\ Elements[1] = "root"
     /\ IsFeatures(Elements[2])
     /\ pc \notin {"NewClient", "init", "root1", "features1"}
  THEN Elements[2] ELSE ""

\* What followed the auth element, once init has read it ("" before).
AuthReply ==
  IF Wrote("auth") /\ Len(Elements) >= 3 /\ pc # "authResult"
  THEN Elements[3] ELSE ""

\* ----------------------------------------------------------------- C1
\* C1: the restart header, the bind request and the initial presence are
\* on the wire, or the caller holds a ready client, only if the element
\* that followed the auth element was a SASL <success>; after any other
\* reply none of the three is ever written.
C1_WritesOnlyAfterSuccess ==
  (Wrote("restart") \/ Wrote("bind") \/ Wrote("presence") \/ client = "held")
    => (Wrote("auth") /\ AuthReply = "success")

C1_Witness ==
  /\ pc = "Ready"
  /\ Wrote("restart") /\ Wrote("bind") /\ Wrote("presence")
  /\ AuthReply = "success"

\* ----------------------------------------------------------------- C2
\* C2: once negotiation has begun, whenever it ends before Ready, init
\* has returned an error and NewClient has closed the transport and
\* returned no client.
C2_FailureReturnsError ==
  (encrypted /\ pc \in {"Failed", "Exited"})
    => (pc = "Failed" /\ err # "" /\ tlsClosed /\ client = "nil")

\* ----------------------------------------------------------------- C3
\* C3: the auth element names EXTERNAL when the policy prefers it and it
\* is advertised, and PLAIN otherwise.
PreferredMechanism ==
  IF AuthExternal /\ "EXTERNAL" \in Advertised(FirstFeatures) THEN "EXTERNAL" ELSE "PLAIN"

AuthElementNaming(m) ==
  { "<auth xmlns='" \o nsSASL \o "' mechanism='" \o m \o "'>" \o payload \o "</auth>\n" :
      payload \in { "", Base64(<< 0 >> \o Bytes(SplitN2(user)[1]) \o << 0 >> \o Bytes(passwd)) } }

C3_MechanismFollowsPolicy ==
  \A i \in 1..Len(wire) :
    wire[i].kind = "auth" => wire[i].text \in AuthElementNaming(PreferredMechanism)

\* ----------------------------------------------------------------- C4
\* C4: when the first features element offers neither PLAIN nor an
\* EXTERNAL the policy asks for, negotiation has failed with the error
\* that names the offered mechanisms and no auth element is on the wire.
NoViableMechanism ==
  /\ FirstFeatures # ""
  /\ "PLAIN" \notin Advertised(FirstFeatures)
  /\ ~(AuthExternal /\ "EXTERNAL" \in Advertised(FirstFeatures))

C4_NoMechanismNoAuth ==
  NoViableMechanism =>
    /\ pc = "Failed"
    /\ err \in { "PLAIN authentication is not an option: [X-OAUTH2]",
                 "PLAIN authentication is not an option: [EXTERNAL]" }
    /\ ~Wrote("auth")
    /\ client = "nil"

C4_Witness ==
  /\ FirstFeatures = "features-X"
  /\ pc = "Failed"
  /\ err = "PLAIN authentication is not an option: [X-OAUTH2]"
  /\ ~Wrote("auth")

\* ----------------------------------------------------------------- C5
\* C5: the auth element is on the wire only of an encrypted transport;
\* when the handshake or the hostname check fails, NewClient has failed
\* with that error and nothing at all has been written.
C5_NoAuthUnencrypted ==
  /\ Wrote("auth") => encrypted
  /\ (~encrypted /\ pc # "NewClient") =>
       (pc = "Failed" /\ err \in {"dial", "handshake", "hostname"} /\ wire = << >>
          /\ client = "nil")

C5_Witness ==
  /\ ~encrypted
  /\ pc = "Failed"
  /\ err = "handshake"
  /\ wire = << >>

\* ----------------------------------------------------------------- C6
\* C6: after a SASL <failure> whose child is <not-authorized/>,
\* negotiation has ended with the error whose reason is not-authorized.
C6_FailureReasonIsChildName ==
  AuthReply = "failure" => (pc = "Failed" /\ err = "auth failure: not-authorized")

\* ----------------------------------------------------------------- C7
\* C7: a read failure never ends the process; it comes back as an error.
C7_ReadFailureNeverExits == pc # "Exited"

\* =====================================================================
\* Recv, on a client that starts out connected (SpecRecv).
\* =====================================================================
\* The chunks Recv has read: all that were sent, but for the one still
\* waiting for the turn of the loop that reads it.
RECURSIVE Tokens(_)
Tokens(ls) == IF ls = << >> THEN << >> ELSE Chunk(Head(ls)) \o Tokens(Tail(ls))

IsSuffix(t, q) == Len(t) <= Len(q) /\ SubSeq(q, Len(q) - Len(t) + 1, Len(q)) = t

\* The elements not yet read: the longest run of the last ones sent
\* whose tokens are all still in the buffer.
Unread(es) ==
  CHOOSE k \in 0..Len(es) :
    /\ IsSuffix(Tokens(SubSeq(es, Len(es) - k + 1, Len(es))), inbuf)
    /\ \A j \in (k + 1)..Len(es) :
         ~IsSuffix(Tokens(SubSeq(es, Len(es) - j + 1, Len(es))), inbuf)

Consumed ==
  CHOOSE c \in { SubSeq(es, 1, Len(es) - Unread(es)) : es \in { SentElems(sentLog) } } : TRUE

\* A result of Recv with no Type and no other children.
Ret(typ, body, e) == [typ |-> typ, body |-> body, type |-> "", other |-> << >>, err |-> e]

\* The children of the error message the struct has no field for, each
\* with its name and its inner markup as received.
ErrorChildren ==
  << [name |-> Name("google:mobile:data", "gcm"),
      inner |-> "{\"random\": \"&lt;text&gt;\"}"],
     [name |-> Name(nsClient, "error"),
      inner |-> "<bad-request xmlns=\"" \o nsStanzas \o "\"/><text xmlns=\""
                  \o nsStanzas \o "\">InvalidJson</text>"] >>

\* A result but for the children kept.
Event(x) == [typ |-> x.typ, body |-> x.body, type |-> x.type, err |-> x.err]
Events(xs) == [i \in 1..Len(xs) |-> Event(xs[i])]

UnexpectedText(space, local) == "unexpected XMPP message " \o space \o " <" \o local \o "/>"

\* What Recv is to return for a chunk: one result, or none.
ReturnFor(l) ==
  CASE l = "message-1" -> << Ret("Message", "m1", "") >>
    [] l = "message-2" -> << Ret("Message", "m2", "") >>
    [] l = "presence" -> << Ret("Presence", "", "") >>
    [] l = "query" ->
         << Ret("", "", UnexpectedText("jabber:iq:roster", "query")) >>
    [] l = "root" ->
         << Ret("", "", UnexpectedText(nsStream, "stream")) >>
    [] l = "root-ns" ->
         << Ret("", "", UnexpectedText(nsClient, "stream")) >>
    [] l = "message-error" ->
         << [typ |-> "Message", body |-> "", type |-> "error", other |-> ErrorChildren,
             err |-> ""] >>
    [] l = "challenge" ->
         << Ret("", "", "non-pointer passed to Unmarshal") >>
    [] l = "cut" -> << Ret("", "", ErrSyntax) >>
    [] OTHER -> << >>

\* What Recv is to print for a chunk: the value it drops, or nothing.
PrintFor(l) ==
  CASE IsFeatures(l) -> << "streamFeatures" >>
    [] l = "success" -> << "saslSuccess" >>
    [] l = "failure" -> << "saslFailure" >>
    [] l \in {"iq-bind", "iq-Jid", "iq-empty"} -> << "clientIQ" >>
    [] OTHER -> << >>

RECURSIVE ReturnsFor(_)
ReturnsFor(ls) == IF ls = << >> THEN << >> ELSE ReturnFor(Head(ls)) \o ReturnsFor(Tail(ls))

RECURSIVE PrintsFor(_)
PrintsFor(ls) == IF ls = << >> THEN << >> ELSE PrintFor(Head(ls)) \o PrintsFor(Tail(ls))

Succeeded(x) == x.err = ""
IsUnexpected(x) ==
  x.err \in { UnexpectedText("jabber:iq:roster", "query"), UnexpectedText(nsStream, "stream"),
              UnexpectedText(nsClient, "stream") }

\* ----------------------------------------------------------------- C8
\* C8: on a transport that closes having delivered nothing, Recv has
\* returned io.EOF and no stanza.
C8_EmptyTransportGivesEOF ==
  (sentLog = << >> /\ inClosed /\ pc # "Recv")
    => (pc = "Ready" /\ recvRet = << Ret("", "", ErrEOF) >>)

\* ----------------------------------------------------------------- C9
\* C9: the stanzas Recv has returned are the messages and presences
\* among the elements read, each once and in arrival order; every other
\* decoded element was printed and dropped, and no call ended on one.
C9_RecvReturnsEventsInOrder ==
  /\ Events(SelectSeq(recvRet, Succeeded)) = Events(SelectSeq(ReturnsFor(Consumed), Succeeded))
  /\ \A i \in 1..Len(recvRet) :
       Succeeded(recvRet[i]) => recvRet[i].typ \in {"Message", "Presence"}
  /\ stdout = PrintsFor(Consumed)
  /\ Len(recvRet) = Len(ReturnsFor(Consumed))

C9_Witness ==
  /\ sentLog = << "message-2", "iq-bind", "message-1" >>
  /\ recvRet = << Ret("Message", "m2", ""),
                  Ret("Message", "m1", "") >>
  /\ stdout = << "clientIQ" >>

\* ---------------------------------------------------------------- C10
\* C10: for each element read whose name is not in the switch, next
\* gave no value and the error naming its namespace and local name, and
\* Recv returned that error instead of dropping the element.
C10_UnknownNameFails ==
  /\ SelectSeq(recvSeen, IsUnexpected) = SelectSeq(ReturnsFor(Consumed), IsUnexpected)
  /\ SelectSeq(recvRet, IsUnexpected) = SelectSeq(ReturnsFor(Consumed), IsUnexpected)
  /\ \A i \in 1..Len(stdout) : stdout[i] # ""

C10_Witness ==
  /\ sentLog = << "iq-empty", "query", "presence" >>
  /\ recvRet = << Ret("", "", "unexpected XMPP message jabber:iq:roster <query/>"),
                  Ret("Presence", "", "") >>
  /\ stdout = << "clientIQ" >>

\* ---------------------------------------------------------------- C11
\* C11: for each message of type error read, Recv returned a Message
\* whose Type is error and which carries, in order, the name and the
\* inner markup as received of each child the struct has no field for.
IsErrorMessage(x) == x.typ = "Message" /\ x.type = "error"

C11_ErrorMessageKeepsChildren ==
  SelectSeq(recvRet, IsErrorMessage) = SelectSeq(ReturnsFor(Consumed), IsErrorMessage)

\* =====================================================================
\* The negotiation, step by step (Spec).
\* =====================================================================
\* The element init read, or is to read, at each of its reads: 1 the
\* first root, 2 the first features, 3 the reply to auth, 4 the second
\* root, 5 the second features, 6 the reply to the bind request.
Sent(i) == IF Len(Elements) >= i THEN Elements[i] ELSE ""

Mechanisms(l) ==
  CASE l = "features-EPX" -> << "EXTERNAL", "PLAIN", "X-OAUTH2" >>
    [] l = "features-PX" -> << "PLAIN", "X-OAUTH2" >>
    [] l = "features-X" -> << "X-OAUTH2" >>
    [] l = "features-E" -> << "EXTERNAL" >>
    [] OTHER -> << >>

\* ---------------------------------------------------------------- C12
\* C12: the second stream root is read by the decoder that read the
\* first: at the second features read both roots are open in it and it
\* has no error; a root that arrived in one piece with <success> is
\* still there to be read after the restart header is written; and the
\* features element that follows the second root decodes, to the
\* mechanisms it lists, leaving nothing unread.
C12_RestartKeepsDecoder ==
  /\ pc = "features2" => (dec.depth = 2 /\ dec.err = "")
  /\ (pc = "root2" /\ Sent(3) = "success" /\ Sent(4) = "root"
        /\ sentLog[Len(sentLog)] = "success+root")
       => inbuf = Chunk("root")
  /\ (pc = "features2" /\ IsFeatures(Sent(5))) =>
       \E r \in { DecodeElement(D, "streamFeatures", FALSE, BadTok) } :
         /\ r.st = "ok"
         /\ r.val.mechanism = Mechanisms(Sent(5))
         /\ r.d.buf = << >>
         /\ r.d.depth = 2

C12_Witness ==
  /\ pc = "features2"
  /\ sentLog = << "root", "features-PX", "success+root", "features-EPX" >>
  /\ dec.depth = 2

\* ---------------------------------------------------------------- C13
\* C13: the initial presence is written and the caller gets a client
\* only if the element read after the bind request was an <iq> holding
\* a <bind> with an identifier; after an <iq> without one negotiation
\* has failed.
HasBindOutcome(l) == l \in {"iq-bind", "iq-Jid"}

\* init has just ended, having written the bind request: the caller has
\* not called Recv since, so the last element sent is the one init read
\* last, in reply to the bind request.
JustAfterBind == Wrote("bind") /\ pc \in {"Ready", "Failed"} /\ recvRet = << >>
LastElem == IF Elements = << >> THEN "" ELSE Elements[Len(Elements)]

C13_BindRequired ==
  (JustAfterBind /\ ~HasBindOutcome(LastElem))
    => (pc = "Failed" /\ ~Wrote("presence") /\ client = "nil")

\* ---------------------------------------------------------------- C14
\* C14: at both reads of a stream root, a start element that is not
\* stream in the streams namespace, by either field, ends negotiation
\* with the error naming it, before the features read and with nothing
\* more written; init goes on to the features read only after a root.
IsStartChunk(l) == l \in ChunkLabels /\ Head(Chunk(l)).k = "start"
Kinds == [i \in 1..Len(wire) |-> wire[i].kind]

C14_RootIsChecked ==
  /\ (encrypted /\ pc \notin {"NewClient", "init", "root1"}
        /\ IsStartChunk(Sent(1)) /\ Sent(1) # "root")
       => /\ pc = "Failed"
          /\ err = "xmpp: expected <stream> but got <" \o Head(Chunk(Sent(1))).local
                     \o "> in " \o Head(Chunk(Sent(1))).space
          /\ Kinds = << "header" >>
  /\ (Wrote("restart") /\ pc # "root2" /\ IsStartChunk(Sent(4)) /\ Sent(4) # "root")
       => /\ pc = "Failed"
          /\ err = "expected <stream>, got <" \o Head(Chunk(Sent(4))).local
                     \o "> in " \o Head(Chunk(Sent(4))).space
          /\ Kinds = << "header", "auth", "restart" >>
  /\ pc = "features1" => Sent(1) = "root"
  /\ pc = "features2" => Sent(4) = "root"

C14_Witness ==
  /\ pc = "Failed"
  /\ Wrote("restart")
  /\ Sent(4) = "root-ns"
  /\ err = "expected <stream>, got <stream> in jabber:client"

\* ---------------------------------------------------------------- C15
\* C15: when the first features read fails, negotiation has failed with
\* the error of that read and no auth element is written; once the
\* second root is read, the bind request is the fourth write whatever
\* the second features read met, and a failure that follows is that of
\* the <iq> read, not of the features read.
FeaturesErrors ==
  { "unmarshal <features>: " \o e :
      e \in { ErrSyntax, ErrEOF, "strconv.ParseBool: parsing \"maybe\": invalid syntax" }
             \cup { "expected element type <features> but have <" \o Head(Chunk(l)).local \o ">" :
                      l \in { x \in ChunkLabels : IsStartChunk(x) } } }

C15_FeaturesStrictThenLenient ==
  /\ (encrypted /\ Sent(1) = "root"
        /\ pc \notin {"NewClient", "init", "root1", "features1"} /\ ~IsFeatures(Sent(2)))
       => (pc = "Failed" /\ err \in FeaturesErrors /\ Kinds = << "header" >>)
  /\ (Wrote("restart") /\ Sent(4) = "root" /\ pc \notin {"root2", "features2"})
       => /\ Len(wire) >= 4
          /\ wire[4] = [kind |-> "bind", text |-> BindText]
          /\ err \notin FeaturesErrors

C15_Witness ==
  /\ pc = "bindResult"
  /\ Sent(4) = "root"
  /\ Sent(5) = "message-1"
  /\ Kinds = << "header", "auth", "restart", "bind" >>

\* ---------------------------------------------------------------- C16
\* C16: c.jid is empty until the reply to the bind request has been
\* decoded; once init has ended well it is the identifier that reply
\* carried; and it changes only at that one step, from empty, never
\* in Recv, Send or Close.
CarriedJid(l) ==
  CASE l = "iq-bind" -> "u@d/r"
    [] l = "iq-Jid" -> "u@d/R"
    [] OTHER -> ""

C16_JidInv ==
  /\ (~Wrote("bind") \/ pc = "bindResult") => jid = ""
  /\ (JustAfterBind /\ pc = "Ready") => (HasBindOutcome(LastElem) /\ jid = CarriedJid(LastElem))
  /\ pc = "Failed" => jid = ""

C16_JidSetOnceFromBind ==
  /\ []C16_JidInv
  /\ [][jid' # jid => (jid = "" /\ pc = "bindResult" /\ pc' = "Ready")]_vars

\* ---------------------------------------------------------------- C17
\* C17: the writes of the negotiation are, in this order and each at
\* most once, header, auth, restart, bind, presence; at each read init
\* has written exactly the requests up to the one it awaits the reply
\* of; and each write follows the expected reply to the one before: the
\* root and the features before auth, <success> before the restart, the
\* second root and the second features before bind, an <iq> before the
\* presence.
WriteOrder == << "header", "auth", "restart", "bind", "presence" >>
NegotiationWrites == SelectSeq(Kinds, LAMBDA k : k # "stanza")

WritesAt ==
  CASE pc \in {"NewClient", "init"} -> 0
    [] pc \in {"root1", "features1"} -> 1
    [] pc = "authResult" -> 2
    [] pc \in {"root2", "features2"} -> 3
    [] pc = "bindResult" -> 4
    [] pc \in {"Ready", "Recv", "Closed"} -> 5
    [] OTHER -> Len(NegotiationWrites)

IsFeaturesElem(l) == IsFeatures(l) \/ l = "features-Session"

OneOutstanding ==
  /\ Len(NegotiationWrites) <= 5
  /\ NegotiationWrites = SubSeq(WriteOrder, 1, Len(NegotiationWrites))
  /\ Len(NegotiationWrites) = WritesAt
  /\ \A i \in 1..Len(wire) : wire[i].kind = "stanza" => i > 5

C17_WritesInLockstep ==
  /\ OneOutstanding
  /\ Wrote("auth") => (Sent(1) = "root" /\ IsFeatures(Sent(2)))
  /\ Wrote("restart") => Sent(3) = "success"
  /\ Wrote("bind") => (Sent(4) = "root" /\ IsFeaturesElem(Sent(5)))
  /\ (JustAfterBind /\ Wrote("presence")) => LastElem \in {"iq-bind", "iq-Jid", "iq-empty"}

\* C17, amended: as above, except that before bind the second features
\* need not have been read: the read of it has returned, with a
\* features element or with an error, which init ignores.
RepliesRead ==
  /\ OneOutstanding
  /\ Wrote("auth") => (Sent(1) = "root" /\ IsFeatures(Sent(2)))
  /\ Wrote("restart") => Sent(3) = "success"
  /\ Wrote("bind") => Sent(4) = "root"
  /\ (JustAfterBind /\ Wrote("presence")) => LastElem \in {"iq-bind", "iq-Jid", "iq-empty"}

BindAfterFeaturesRead ==
  (~Wrote("bind") /\ Wrote("bind")') =>
     /\ pc = "features2"
     /\ \E r \in { DecodeElement(D, "streamFeatures", FALSE, BadTok) } :
          /\ r.st # "block"
          /\ Read(r.d)

C17_WritesAfterReadsReturn == []RepliesRead /\ [][BindAfterFeaturesRead]_vars

C17_Witness ==
  /\ pc = "Ready"
  /\ Kinds = WriteOrder
  /\ Elements = << "root", "features-PX", "success", "root", "presence", "iq-bind" >>

\* ---------------------------------------------------------------- C18
\* C18: the header written for the restart is, byte for byte, the one
\* written at the open, and nothing but the auth element is written
\* between the two.
C18_RestartHeaderSame ==
  Wrote("restart") =>
    /\ wire[3].kind = "restart"
    /\ wire[1].kind = "header"
    /\ wire[2].kind = "auth"
    /\ wire[3].text = wire[1].text

\* ---------------------------------------------------------------- C19
\* C19: with a caller in Recv and a caller in Send at once, what Recv
\* has returned and printed is what the elements read give on their
\* own, in order, and every Send does what it does alone, however the
\* steps of the two interleave: a Send that has begun returns, what it
\* has written is its whole stanza, once per call that returned nil,
\* and it returns an error only on a connection that Close or the peer
\* has closed.
C19_RecvSendIndependent ==
  /\ Events(recvRet) = Events(ReturnsFor(Consumed))
  /\ stdout = PrintsFor(Consumed)
  /\ \A i \in 1..Len(wire) :
       /\ wire[i].kind = "stanza"
       /\ wire[i].text \in { MessageText(b) : b \in Bodies }
  /\ Len(wire) = Len(SelectSeq(sendRet, LAMBDA e : e = ""))
  /\ \A i \in 1..Len(sendRet) : sendRet[i] # "" => (tlsClosed \/ inClosed)
  /\ sendCalls - Len(sendRet) \in {0, 1}
  /\ (enc # "" /\ ~tlsClosed /\ ~inClosed) => sendCalls = Len(sendRet) + 1
  /\ pc = "Exited" => Len(sendRet) = sendCalls

\* ---------------------------------------------------------------- C20
\* C20: with a server that answers every step, negotiation ends in
\* Ready, and there init has returned no error, the writes are the five
\* of the negotiation with the presence last, and c.jid is the
\* identifier the server sent.
C20_NegotiationCompletes ==
  /\ <>(pc = "Ready")
  /\ [](pc = "Ready" =>
         (err = "" /\ client = "held" /\ Kinds = WriteOrder /\ jid = CarriedJid("iq-bind")))

====
